---- MODULE Spec2Model ----
(***************************************************************************)
(* Model of src/index.js: an express server with one liveness route        *)
(* (GET /), one prediction route (POST /predict, multer upload filter,     *)
(* image decode, preprocessing, model invocation, thresholding) and a      *)
(* model loader started from the app.listen callback.                      *)
(*                                                                         *)
(* Granularity.  Node runs every callback to completion and drains the     *)
(* promise microtasks before the next callback, so a step of the model is  *)
(* one callback together with the continuations it resolves synchronously: *)
(*   Listen        the 'listening' callback up to the await in loadModel   *)
(*   LoadModelOk   tf.loadGraphModel resolves                              *)
(*   LoadModelFail tf.loadGraphModel rejects                               *)
(*   ArriveGet / ArrivePost   a connection is accepted                      *)
(*   GetRoot       the GET / handler                                       *)
(*   PostPredict   multer, then either the error middleware or the route   *)
(*                 handler and predict up to the await on the model output *)
(*   ModelResolve  the model output promise settles; rest of predict and   *)
(*                 of the route handler                                    *)
(* Strings the code inspects (MIME type, file name) are sequences of       *)
(* one-character strings; probabilities are integers in units of 0.00001.  *)
(***************************************************************************)
EXTENDS Integers, Sequences, FiniteSets, TLC

\* number of connections that can be in flight at once
MaxConns == 2

Conns == 1..MaxConns

------------------------------------------------------------------------------
\* Program constants

\* limits.fileSize
FileSizeLimit == 1000000

\* predictions[0] > 0.5, in units of 0.00001
Threshold == 50000

\* tf.image.resizeBilinear(inputTensor, [224, 224])
ResizeTo == 224

\* first four bytes of a PNG file, as tested by predict
PngSignature == <<137, 80, 78, 71>>

\* 'image/'
ImagePrefix == <<"i", "m", "a", "g", "e", "/">>

\* ['.jpg', '.jpeg', '.png']
AllowedExts ==
  { <<".", "j", "p", "g">>, <<".", "j", "p", "e", "g">>, <<".", "p", "n", "g">> }

MsgOnlyImages == "Only image files are allowed!"
MsgOnlyJpgPng == "Only JPG, JPEG, and PNG files are allowed!"
MsgFileTooLarge == "File too large"
MsgNoFile == "No file uploaded"
MsgPredictFail == "Terjadi kesalahan dalam melakukan prediksi"
MsgPredictError == "Error processing image for prediction."
MsgSuccess == "Prediction completed successfully"
MsgOnline == "Model is online"
SuggestCancer == "Segera periksa ke dokter!"
SuggestNonCancer == "Penyakit kanker tidak terdeteksi."

------------------------------------------------------------------------------
\* Values

\* let loadedModel;  (undefined until loadModel assigns it)
UNSET == "undefined"
GraphModel == "GraphModel"

Absent == "-"
NoError == "no error"
NoFile == [present |-> FALSE]
NoTensor == <<>>
NoProbability == -1
\* a model output that is not a number
NaN == -2

------------------------------------------------------------------------------
\* Inputs

MimeImagePng == <<"i", "m", "a", "g", "e", "/", "p", "n", "g">>
MimeTextPlain == <<"t", "e", "x", "t", "/", "p", "l", "a", "i", "n">>
Mimetypes == { MimeImagePng, MimeTextPlain }

OriginalNames ==
  { <<"a", ".", "p", "n", "g">>,
    <<"b", ".", "J", "P", "G">>,
    <<"c", ".", "g", "i", "f">>,
    <<"p", "n", "g">> }

Sizes == { FileSizeLimit, FileSizeLimit + 1 }

\* An uploaded buffer: its first four bytes, what it really encodes ("png",
\* "jpeg", or "junk" for bytes no decoder accepts), the picture's dimensions
\* and, for a JPEG, the number of samples per pixel the decoder returns.
JpegHead == <<255, 216, 255, 224>>
Buffers ==
  { [head |-> PngSignature, kind |-> "png", width |-> 2, height |-> 3, samples |-> 4],
    [head |-> JpegHead, kind |-> "jpeg", width |-> 300, height |-> 200, samples |-> 3],
    [head |-> JpegHead, kind |-> "jpeg", width |-> 224, height |-> 224, samples |-> 4],
    [head |-> PngSignature, kind |-> "junk", width |-> 0, height |-> 0, samples |-> 0],
    [head |-> <<0, 0, 0, 0>>, kind |-> "junk", width |-> 0, height |-> 0, samples |-> 0] }

\* a file sent in the multipart field `image`
Uploads ==
  { [present |-> TRUE, mimetype |-> m, originalname |-> n, size |-> s, buffer |-> b] :
      m \in Mimetypes, n \in OriginalNames, s \in Sizes, b \in Buffers }

\* first element of the model output: 0, 0.5, 0.50001, 1, or not a number
Probabilities == { 0, 50000, 50001, 100000, NaN }

------------------------------------------------------------------------------
\* String helpers

StartsWith(s, p) == Len(s) >= Len(p) /\ SubSeq(s, 1, Len(p)) = p

LowerChar(ch) ==
  CASE ch = "J" -> "j"
    [] ch = "P" -> "p"
    [] ch = "G" -> "g"
    [] ch = "N" -> "n"
    [] ch = "E" -> "e"
    [] OTHER -> ch

ToLowerCase(s) == [i \in 1..Len(s) |-> LowerChar(s[i])]

\* path.extname: from the last "." to the end; "" when there is no "." or
\* the only "." is the first character
Extname(name) ==
  LET dots == { i \in 1..Len(name) : name[i] = "." }
  IN  IF dots = {} THEN <<>>
      ELSE LET last == CHOOSE i \in dots : \A j \in dots : j <= i
           IN  IF last = 1 THEN <<>> ELSE SubSeq(name, last, Len(name))

------------------------------------------------------------------------------
\* Upload validation


\* fileFilter with its two tests in the opposite order
fileFilterExtFirst(file) ==
  IF ToLowerCase(Extname(file.originalname)) \notin AllowedExts THEN MsgOnlyJpgPng
  ELSE IF ~StartsWith(file.mimetype, ImagePrefix) THEN MsgOnlyImages
  ELSE NoError

\* multer fileFilter: the error it passes to cb, or NoError
fileFilter(file) ==
  IF ~StartsWith(file.mimetype, ImagePrefix) THEN MsgOnlyImages
  ELSE IF ToLowerCase(Extname(file.originalname)) \notin AllowedExts THEN MsgOnlyJpgPng
  ELSE NoError

\* upload.single('image'): the filter runs on the part's header, the size
\* limit while the part's data is read; req.file is set only when both pass
upload(u) ==
  IF ~u.present THEN [err |-> NoError, file |-> NoFile]
  ELSE IF fileFilter(u) # NoError THEN [err |-> fileFilter(u), file |-> NoFile]
  ELSE IF u.size > FileSizeLimit THEN [err |-> MsgFileTooLarge, file |-> NoFile]
  ELSE [err |-> NoError, file |-> u]

------------------------------------------------------------------------------
\* predict, up to the model invocation

\* the decoder chosen by the signature test, and what it returns
Decode(buffer) ==
  IF buffer.head = PngSignature
  THEN IF buffer.kind = "png"
       THEN [ok |-> TRUE, width |-> buffer.width, height |-> buffer.height,
             length |-> buffer.width * buffer.height * 4]
       ELSE [ok |-> FALSE, width |-> 0, height |-> 0, length |-> 0]
  ELSE IF buffer.kind = "jpeg"
       THEN [ok |-> TRUE, width |-> buffer.width, height |-> buffer.height,
             length |-> buffer.width * buffer.height * buffer.samples]
       ELSE [ok |-> FALSE, width |-> 0, height |-> 0, length |-> 0]

\* shape of the tensor3d built from the decoded data; NoTensor when
\* tf.tensor3d rejects the shape
InputTensor(buffer) ==
  LET d == Decode(buffer)
  IN  IF ~d.ok THEN NoTensor
      ELSE IF buffer.head = PngSignature THEN <<d.height, d.width, 4>>
      ELSE IF d.length % (d.width * d.height) # 0 THEN NoTensor
      ELSE <<d.height, d.width, d.length \div (d.width * d.height)>>


\* predict without the alpha slice
DropAlphaKeep(shape) == shape

\* tf.slice(inputTensor, [0, 0, 0], [-1, -1, 3]) when there are 4 channels
DropAlpha(shape) ==
  IF shape[3] = 4 THEN <<shape[1], shape[2], 3>> ELSE shape

\* resizeBilinear to 224 x 224, then expandDims(0)
Preprocess(shape) == <<1, ResizeTo, ResizeTo, DropAlpha(shape)[3]>>

\* the synchronous part of predict: the tensor handed to loadedModel.predict,
\* or the failure that sends control to the catch block
PredictSync(buffer, model) ==
  IF InputTensor(buffer) = NoTensor THEN [ok |-> FALSE, cause |-> "decode", tensor |-> NoTensor]
  ELSE IF model = UNSET THEN [ok |-> FALSE, cause |-> "no model", tensor |-> NoTensor]
  ELSE [ok |-> TRUE, cause |-> Absent, tensor |-> Preprocess(InputTensor(buffer))]


\* the threshold test with >= in place of >
IsCancerAtLeast(p) == p # NaN /\ p >= Threshold

\* predictions[0] > 0.5
IsCancer(p) == p # NaN /\ p > Threshold

Label(p) == IF IsCancer(p) THEN "Cancer" ELSE "Non-cancer"


\* a catch block that rethrows the error it caught
PredictCatchRethrow(cause) == cause

\* the message of the Error thrown by predict's catch block
PredictCatch(cause) == MsgPredictError

------------------------------------------------------------------------------
\* Responses

Body(status, message, error, result, suggestion) ==
  [status |-> status, message |-> message, error |-> error,
   result |-> result, suggestion |-> suggestion]


\* a liveness route that answers 503 until the model is loaded
GetRootResponseGated(model) ==
  IF model = UNSET
  THEN [code |-> 503, body |-> Body(Absent, "Model is loading", Absent, Absent, Absent)]
  ELSE [code |-> 200, body |-> Body(Absent, MsgOnline, Absent, Absent, Absent)]

\* res.send('Model is online')
GetRootResponse(model) == [code |-> 200, body |-> Body(Absent, MsgOnline, Absent, Absent, Absent)]

\* app.use((err, req, res, next) => ...)
ErrorMiddleware(msg) == [code |-> 400, body |-> Body("fail", msg, Absent, Absent, Absent)]

NoFileResponse == [code |-> 400, body |-> Body("fail", MsgNoFile, Absent, Absent, Absent)]

\* the route handler's catch block
HandlerCatch(msg) == [code |-> 500, body |-> Body("fail", MsgPredictFail, msg, Absent, Absent)]

Suggestion(result) == IF result = "Cancer" THEN SuggestCancer ELSE SuggestNonCancer

\* the success envelope (id and createdAt are fresh metadata, left out)
SuccessResponse(result) ==
  [code |-> 200, body |-> Body("success", MsgSuccess, Absent, result, Suggestion(result))]

------------------------------------------------------------------------------
\* State

VARIABLES
  listening,    \* the server socket accepts connections
  alive,        \* the process is running
  exitCode,     \* argument of process.exit, -1 while running
  loaderPc,     \* "idle", "loading", "done", "failed": position of loadModel
  loadedModel,  \* the module variable loadedModel
  conns,        \* per connection: the request in flight
  response      \* the response written last, with the request it answers

vars == <<listening, alive, exitCode, loaderPc, loadedModel, conns, response>>

IdleConn == [pc |-> "idle", method |-> Absent, sent |-> NoFile, file |-> NoFile,
             tensor |-> NoTensor]

NoResponse ==
  [method |-> Absent, sent |-> NoFile, code |-> 0,
   body |-> Body(Absent, Absent, Absent, Absent, Absent),
   handlerRan |-> FALSE, predictCalls |-> 0, cause |-> Absent,
   tensor |-> NoTensor, probability |-> NoProbability,
   model |-> UNSET, loader |-> Absent]

Init ==
  /\ listening = FALSE
  /\ alive = TRUE
  /\ exitCode = -1
  /\ loaderPc = "idle"
  /\ loadedModel = UNSET
  /\ conns = [c \in Conns |-> IdleConn]
  /\ response = NoResponse

\* One response is written and the connection is released.
Respond(c, r, sent, handlerRan, predictCalls, cause, tensor, probability) ==
  /\ response' = [method |-> conns[c].method, sent |-> sent, code |-> r.code,
                  body |-> r.body, handlerRan |-> handlerRan,
                  predictCalls |-> predictCalls, cause |-> cause,
                  tensor |-> tensor, probability |-> probability,
                  model |-> loadedModel, loader |-> loaderPc]
  /\ conns' = [conns EXCEPT ![c] = IdleConn]

------------------------------------------------------------------------------
\* Startup

\* app.listen(PORT, async () => { await loadModel(); ... }): the callback runs
\* once the socket is listening and enters loadModel up to its await
Listen ==
  /\ alive /\ ~listening
  /\ listening' = TRUE
  /\ loaderPc' = "loading"
  /\ UNCHANGED <<alive, exitCode, loadedModel, conns, response>>

\* loadedModel = await tf.loadGraphModel(MODEL_URL)
LoadModelOk ==
  /\ alive /\ loaderPc = "loading"
  /\ loadedModel' = GraphModel
  /\ loaderPc' = "done"
  /\ UNCHANGED <<listening, alive, exitCode, conns, response>>


\* a loader that logs the failure and keeps the process running
LoadModelFailNoExit ==
  /\ alive /\ loaderPc = "loading"
  /\ loaderPc' = "failed"
  /\ UNCHANGED <<listening, alive, exitCode, loadedModel, conns, response>>

\* catch (err) { process.exit(1) }
LoadModelFail ==
  /\ alive /\ loaderPc = "loading"
  /\ loaderPc' = "failed"
  /\ alive' = FALSE
  /\ exitCode' = 1
  /\ listening' = FALSE
  /\ UNCHANGED <<loadedModel, conns, response>>

------------------------------------------------------------------------------
\* Requests

Arrive(c, method) ==
  /\ alive /\ listening
  /\ conns[c].pc = "idle"
  /\ conns' = [conns EXCEPT ![c] = [IdleConn EXCEPT !.pc = "accepted", !.method = method]]
  /\ UNCHANGED <<listening, alive, exitCode, loaderPc, loadedModel, response>>

ArriveGet(c) == Arrive(c, "GET")

ArrivePost(c) == Arrive(c, "POST")

\* app.get('/', ...)
GetRoot(c) ==
  /\ alive
  /\ conns[c].pc = "accepted" /\ conns[c].method = "GET"
  /\ Respond(c, GetRootResponse(loadedModel), NoFile, TRUE, 0, Absent, NoTensor, NoProbability)
  /\ UNCHANGED <<listening, alive, exitCode, loaderPc, loadedModel>>


\* a route handler without the !req.file test: reading req.file.buffer throws
\* inside the handler's try block
RouteHandlerNoFileCheck(c, u, file, model) ==
  IF ~file.present
  THEN Respond(c, HandlerCatch("Cannot read properties of undefined"), u, TRUE, 0,
               Absent, NoTensor, NoProbability)
  ELSE LET p == PredictSync(file.buffer, model)
       IN  IF p.ok
           THEN /\ conns' = [conns EXCEPT ![c] = [@ EXCEPT !.pc = "awaitModel", !.sent = u,
                                                          !.file = file, !.tensor = p.tensor]]
                /\ UNCHANGED response
           ELSE Respond(c, HandlerCatch(PredictCatch(p.cause)), u, TRUE, 1, p.cause,
                        NoTensor, NoProbability)

\* The route handler of POST /predict from its entry to the await on the
\* model output: the connection's next state or the response it writes.
RouteHandler(c, u, file, model) ==
  IF ~file.present
  THEN Respond(c, NoFileResponse, u, TRUE, 0, Absent, NoTensor, NoProbability)
  ELSE LET p == PredictSync(file.buffer, model)
       IN  IF p.ok
           THEN /\ conns' = [conns EXCEPT ![c] = [@ EXCEPT !.pc = "awaitModel", !.sent = u,
                                                          !.file = file, !.tensor = p.tensor]]
                /\ UNCHANGED response
           ELSE Respond(c, HandlerCatch(PredictCatch(p.cause)), u, TRUE, 1, p.cause,
                        NoTensor, NoProbability)

\* app.post('/predict', upload.single('image'), async (req, res) => ...)
PostPredict(c) ==
  /\ alive
  /\ conns[c].pc = "accepted" /\ conns[c].method = "POST"
  /\ \E u \in Uploads \cup {NoFile} :
       LET m == upload(u)
       IN  IF m.err # NoError
           THEN Respond(c, ErrorMiddleware(m.err), u, FALSE, 0, Absent, NoTensor, NoProbability)
           ELSE RouteHandler(c, u, m.file, loadedModel)
  /\ UNCHANGED <<listening, alive, exitCode, loaderPc, loadedModel>>


\* a handler that discards the model handle when an inference fails
ModelResolveReset(c) ==
  /\ alive
  /\ conns[c].pc = "awaitModel"
  /\ \/ /\ \E p \in Probabilities :
             Respond(c, SuccessResponse(Label(p)), conns[c].sent, TRUE, 1, Absent,
                     conns[c].tensor, p)
        /\ UNCHANGED loadedModel
     \/ /\ Respond(c, HandlerCatch(PredictCatch("inference")), conns[c].sent, TRUE, 1,
                   "inference", conns[c].tensor, NoProbability)
        /\ loadedModel' = UNSET
  /\ UNCHANGED <<listening, alive, exitCode, loaderPc>>

\* await loadedModel.predict(tensor).data() settles: with the output, or with
\* an error of the backend
ModelResolve(c) ==
  /\ alive
  /\ conns[c].pc = "awaitModel"
  /\ \/ \E p \in Probabilities :
          Respond(c, SuccessResponse(Label(p)), conns[c].sent, TRUE, 1, Absent,
                  conns[c].tensor, p)
     \/ Respond(c, HandlerCatch(PredictCatch("inference")), conns[c].sent, TRUE, 1,
                "inference", conns[c].tensor, NoProbability)
  /\ UNCHANGED <<listening, alive, exitCode, loaderPc, loadedModel>>

Next ==
  \/ Listen
  \/ LoadModelOk
  \/ LoadModelFail
  \/ \E c \in Conns : ArriveGet(c)
  \/ \E c \in Conns : ArrivePost(c)
  \/ \E c \in Conns : GetRoot(c)
  \/ \E c \in Conns : PostPredict(c)
  \/ \E c \in Conns : ModelResolve(c)

Spec == Init /\ [][Next]_vars

------------------------------------------------------------------------------
\* Properties

\* the request answered last carried a file that passes the filter and the
\* size limit
SentAccepted ==
  /\ response.method = "POST"
  /\ response.sent.present
  /\ StartsWith(response.sent.mimetype, ImagePrefix)
  /\ ToLowerCase(Extname(response.sent.originalname)) \in AllowedExts
  /\ response.sent.size <= FileSizeLimit

\* a step in which connection c is answered
Responds(c) == conns[c].pc # "idle" /\ conns'[c].pc = "idle"

\* C1: in every state in which a POST /predict request is being handled
\* (accepted by the server and not yet answered) the model handle has
\* already been loaded.
ModelLoadedBeforeHandling ==
  \A c \in Conns :
    (conns[c].method = "POST" /\ conns[c].pc # "idle") => loadedModel # UNSET

\* C2: every POST /predict carrying a valid image (accepted by the filter, at
\* most 1,000,000 bytes, decodable), sent at any time after the server has
\* started listening, is answered 200 "success" with a result in
\* {"Cancer", "Non-cancer"} and that label's suggestion.  (Stated even
\* granting that the model evaluation itself raises no backend error.)
ValidImageSucceeds ==
  (SentAccepted /\ Decode(response.sent.buffer).ok /\ response.cause # "inference")
    => /\ response.code = 200
       /\ response.body.status = "success"
       /\ \/ response.body.result = "Cancer" /\ response.body.suggestion = SuggestCancer
          \/ response.body.result = "Non-cancer"
               /\ response.body.suggestion = SuggestNonCancer

\* C3: the label is "Cancer" iff the first element of the model output is
\* strictly greater than 0.5, "Non-cancer" otherwise; exactly 0.5 gives
\* "Non-cancer" and 0.50001 gives "Cancer".
ThresholdRule ==
  response.probability # NoProbability
    => /\ response.body.result \in {"Cancer", "Non-cancer"}
       /\ response.body.result = "Cancer"
            <=> (response.probability # NaN /\ response.probability > 50000)
       /\ response.probability = 50000 => response.body.result = "Non-cancer"
       /\ response.probability = 50001 => response.body.result = "Cancer"

ThresholdRuleWitness ==
  /\ response.probability = 50000
  /\ response.body.result = "Non-cancer"
  /\ response.code = 200

\* C4: any failure while handling an accepted upload (decode error, inference
\* error, missing model handle) is answered 500 with the fixed failure body;
\* predict ran once for it (no retry), the answer is not a success envelope,
\* and the step that answers it leaves the process running.
FailureBody ==
  response.cause # Absent
    => /\ response.code = 500
       /\ response.body = Body("fail", MsgPredictFail, MsgPredictError, Absent, Absent)
       /\ response.predictCalls = 1

FailureKeepsProcess ==
  \A c \in Conns :
    (Responds(c) /\ response'.cause # Absent)
      => /\ alive /\ alive' /\ exitCode' = exitCode
         /\ conns'[c] = IdleConn

PredictionFailureIs500 == []FailureBody /\ [][FailureKeepsProcess]_vars

PredictionFailureWitness ==
  /\ response.cause = "decode"
  /\ response.code = 500
  /\ SentAccepted
  /\ alive

\* C5: a POST /predict with no file in `image` is answered 400
\* {fail, "No file uploaded"}, whether or not the model is loaded, and
\* predict is never invoked for it.
NoFileIs400 ==
  (response.method = "POST" /\ ~response.sent.present)
    => /\ response.code = 400
       /\ response.body = Body("fail", MsgNoFile, Absent, Absent, Absent)
       /\ response.predictCalls = 0
       /\ response.tensor = NoTensor

NoFileWitness ==
  /\ response.method = "POST"
  /\ ~response.sent.present
  /\ response.code = 400
  /\ response.model = UNSET

\* C6: an upload rejected by validation (MIME type not starting with
\* "image/", extension not .jpg/.jpeg/.png ignoring case, or more than
\* 1,000,000 bytes) is answered 400 {fail, <validation message>} by the
\* error middleware; the route handler and predict do not run; the MIME
\* check comes first.
RejectedUploadIs400 ==
  (response.method = "POST" /\ response.sent.present /\ ~SentAccepted)
    => /\ response.code = 400
       /\ response.body.status = "fail"
       /\ response.body.message =
            ( IF ~StartsWith(response.sent.mimetype, ImagePrefix) THEN MsgOnlyImages
              ELSE IF ToLowerCase(Extname(response.sent.originalname)) \notin AllowedExts
                   THEN MsgOnlyJpgPng
              ELSE MsgFileTooLarge )
       /\ response.body.error = Absent
       /\ ~response.handlerRan
       /\ response.predictCalls = 0

RejectedUploadWitness ==
  /\ response.method = "POST"
  /\ response.sent.present
  /\ response.sent.mimetype = MimeTextPlain
  /\ response.sent.originalname = <<"c", ".", "g", "i", "f">>
  /\ response.body.message = MsgOnlyImages
  /\ response.code = 400

\* C7: once the server listens, every GET / is answered 200 "Model is online"
\* whatever the state of the model load: the handler is enabled for every
\* accepted GET while the process runs, and its answer is always the same.
GetRootIs200 ==
  /\ response.method = "GET"
       => /\ response.code = 200
          /\ response.body = Body(Absent, MsgOnline, Absent, Absent, Absent)
  /\ \A c \in Conns :
       (alive /\ conns[c].pc = "accepted" /\ conns[c].method = "GET")
         => ENABLED GetRoot(c)

\* a GET / answered while the model was loading, in a run where the load
\* then failed
GetRootWitness ==
  /\ response.method = "GET"
  /\ response.loader = "loading"
  /\ response.code = 200
  /\ loaderPc = "failed"

\* C8: a failed load terminates the process with exit code 1, with no retry
\* and no degraded mode: nothing happens after the failure, and a success
\* envelope is only ever written once the load has succeeded for good.
LoadFailureState ==
  loaderPc = "failed" => (~alive /\ exitCode = 1 /\ loadedModel = UNSET)

NothingAfterLoadFailure == loaderPc # "failed"

SuccessNeedsLoadedModel ==
  /\ (\E c \in Conns : Responds(c) /\ response'.body.status = "success")
       => (loaderPc = "done" /\ loadedModel = GraphModel)
  /\ loaderPc = "done" => (loaderPc' = "done" /\ alive')

LoadFailureIsFatal ==
  /\ []LoadFailureState
  /\ [][NothingAfterLoadFailure]_vars
  /\ [][SuccessNeedsLoadedModel]_vars

\* the load failed after a POST /predict had been answered and while
\* another request was still in flight
LoadFailureWitness ==
  /\ loaderPc = "failed"
  /\ exitCode = 1
  /\ response.method = "POST"
  /\ response.code = 500
  /\ \E c \in Conns : conns[c].pc = "accepted"

\* C9: the model handle is written at most once, by loadModel, and never
\* changes afterwards, whatever requests are in flight.
ModelWrittenOnce ==
  /\ loadedModel # UNSET => loadedModel' = loadedModel
  /\ loadedModel' # loadedModel => (loaderPc = "loading" /\ loaderPc' = "done")
  /\ loaderPc = "done" => loaderPc' = "done"

ModelHandleReadOnly == [][ModelWrittenOnce]_vars

\* the handle is set, an inference has failed, and requests are in flight
ModelHandleWitness ==
  /\ loadedModel = GraphModel
  /\ response.cause = "inference"
  /\ \A c \in Conns : conns[c].pc = "awaitModel"

====
